---- MODULE Spec2Model ----
(***************************************************************************)
(* Preschool demand forecast: the forecast tab of app.py and the three     *)
(* core functions of forecast_model.py it calls, as a state machine.       *)
(*                                                                         *)
(* Data frames are sequences of rows. A cell of a frame is <<v>> (a        *)
(* value) or <<>> (NaN). Forecast values are floats; they are kept in      *)
(* tenths (8009 is 800.9). Rates are kept in thousandths.                  *)
(* pandas' outer merge sorts the result by the join keys; statsmodels and  *)
(* scikit-learn are external: a fit's numbers are a nondeterministic       *)
(* choice, its shape checks are modelled.                                  *)
(***************************************************************************)
EXTENDS Integers, Sequences, FiniteSets

VARIABLES
    pc,                                 \* position in app.py's forecast tab
    annual_birth_and_fertility_rates,   \* first indicator row, melted: <<[Year, Rate]>>
    bto_mapping,                        \* <<[Subzone, Year, Units]>>
    subzone_long,                       \* [columns, rows: <<[Year, Count]>>]
    caller_frame,                       \* subzone_long as app.py built it (line 69)
    data_long_with_rates,               \* get_forecast_demand's frame after line 156
    exog_future_extended,               \* the regressors of line 185: <<[Year, predicted_for]>>
    fd_outcome,                         \* "none", "ok" or the line that raised
    future_predictions,                 \* the forecast, in tenths
    future_years,
    total_units_by_year,                \* <<[Year, Units]>>, one row per completion year
    overview                            \* what get_overview computed

vars == <<pc, annual_birth_and_fertility_rates, bto_mapping, subzone_long,
          caller_frame, data_long_with_rates, exog_future_extended, fd_outcome,
          future_predictions, future_years, total_units_by_year, overview>>

(***************************************************************************)
(* Program constants                                                       *)
(***************************************************************************)
CutoffYear == 2000
RateLag == 2
TrainRows == 19
forecast_periods == 9
ExtrapolatedRows == 6
years_forecast == <<2024, 2025, 2026, 2027, 2028, 2029>>
LookBack == 2
WindowSpan == 5
Divisor == 5

(***************************************************************************)
(* Cells and generic helpers                                               *)
(***************************************************************************)
NaN == <<>>
IsNaN(c) == c = <<>>

RECURSIVE SortedSeq(_)
SortedSeq(S) ==
    IF S = {} THEN <<>>
    ELSE LET m == CHOOSE x \in S : \A y \in S : x <= y
         IN  <<m>> \o SortedSeq(S \ {m})

Range(s) == {s[i] : i \in 1..Len(s)}
YearsOf(rows) == {rows[i].Year : i \in 1..Len(rows)}
SetMax(S) == CHOOSE x \in S : \A y \in S : y <= x

\* numpy/pandas astype(int) and Python int() on a float: truncation toward zero.
\* The argument is in tenths.
IntCastFloor(t) == t \div 10
IntCast(t) == IF t >= 0 THEN t \div 10 ELSE -((-t) \div 10)

\* int(v / 5): float division, then truncation toward zero.
TruncDiv(v) == IF v >= 0 THEN v \div Divisor ELSE -((-v) \div Divisor)

(***************************************************************************)
(* get_forecast_demand                                                     *)
(***************************************************************************)
\* line 147
filtered_fertility_rate_long(fert) == SelectSeq(fert, LAMBDA r : r.Year >= CutoffYear)

CountCell(rows, y) ==
    IF y \in YearsOf(rows)
    THEN <<(CHOOSE r \in Range(rows) : r.Year = y).Count>>
    ELSE NaN

RateCell(fert, y) ==
    IF y \in YearsOf(fert)
    THEN <<(CHOOSE r \in Range(fert) : r.Year = y).Rate>>
    ELSE NaN

\* line 150-151: outer merge on Year (result sorted by Year), Year as the index.
MergeOnYear(rows, fert) ==
    LET ys == SortedSeq(YearsOf(rows) \cup YearsOf(fert))
    IN  [i \in 1..Len(ys) |->
            [Year |-> ys[i], Count |-> CountCell(rows, ys[i]), Rate |-> RateCell(fert, ys[i])]]

\* line 155: Series.shift(2) moves the values down two rows of the frame.
Shift(joined) ==
    [i \in 1..Len(joined) |->
        [Year |-> joined[i].Year, Count |-> joined[i].Count, Rate |-> joined[i].Rate,
         Rate_lagged |-> IF i > RateLag THEN joined[i - RateLag].Rate ELSE NaN]]

\* line 156
DropNa(frame) == SelectSeq(frame, LAMBDA r : ~IsNaN(r.Rate) /\ ~IsNaN(r.Rate_lagged))

\* lines 147-156
ExogenousFrame(rows, fert) ==
    DropNa(Shift(MergeOnYear(rows, filtered_fertility_rate_long(fert))))

Head19(frame) == SubSeq(frame, 1, IF Len(frame) < TrainRows THEN Len(frame) ELSE TrainRows)
Tail19(frame) == SubSeq(frame, TrainRows + 1, Len(frame))

\* line 180: the six years after the last year of the frame's index.
years_last_6(frame) ==
    LET m == SetMax(YearsOf(frame)) IN [k \in 1..ExtrapolatedRows |-> m + k]

\* lines 161-165 and 181-184: the extrapolated rows. Their values are the linear
\* model's predictions for the years of years_forecast; their index is years_last_6.
exog_last_6_df(frame) ==
    [k \in 1..ExtrapolatedRows |->
        [Year |-> years_last_6(frame)[k], predicted_for |-> years_forecast[k]]]

\* lines 179-185: the regressors handed to the forecast, the frame's rows after the
\* training window and then the extrapolated ones.
RegressorRows(frame) ==
    LET t == Tail19(frame)
    IN  [i \in 1..Len(t) |-> [Year |-> t[i].Year, predicted_for |-> t[i].Year]]
        \o exog_last_6_df(frame)

\* line 189 (and line 202)
FutureYears(rows) ==
    LET m == SetMax(YearsOf(rows)) IN [k \in 1..forecast_periods |-> m + k]

\* Where get_forecast_demand ends: the line that raises, or "ok".
\*   164: LinearRegression.fit on a frame of no rows
\*   170: astype(int) of a Count column holding NaN
\*   188: the forecast's check that exog has forecast_periods rows
\*        (a training window shorter than 19 rows leaves 6 regressor rows)
CastRaises(frame) == \E i \in 1..Len(Head19(frame)) : IsNaN(frame[i].Count)

ForecastOutcome(frame) ==
    IF Len(frame) = 0 THEN "raise_164"
    ELSE IF CastRaises(frame) THEN "raise_170"
    ELSE IF Len(RegressorRows(frame)) # forecast_periods THEN "raise_188"
    ELSE "ok"

(***************************************************************************)
(* get_curr_year_demand                                                    *)
(***************************************************************************)
RECURSIVE SumUnits(_, _)
SumUnits(rows, y) ==
    IF Len(rows) = 0 THEN 0
    ELSE (IF rows[1].Year = y THEN rows[1].Units ELSE 0) + SumUnits(Tail(rows), y)

\* lines 61-64: the subzone's projects, units summed per completion year.
get_curr_year_demand(bto, subzone) ==
    LET mine == SelectSeq(bto, LAMBDA r : r.Subzone = subzone)
        ys   == SortedSeq(YearsOf(mine))
    IN  [i \in 1..Len(ys) |-> [Year |-> ys[i], Units |-> SumUnits(mine, ys[i])]]

(***************************************************************************)
(* get_overview                                                            *)
(***************************************************************************)
\* lines 79-84: history without the Subzone column, then the forecast, Count as int.
forecasted_df(rows, preds, fyears) ==
    rows \o [k \in 1..Len(fyears) |-> [Year |-> fyears[k], Count |-> IntCast(preds[k])]]

UnitsCell(rows, y) ==
    IF y \in YearsOf(rows)
    THEN <<(CHOOSE r \in Range(rows) : r.Year = y).Units>>
    ELSE NaN

\* lines 85 and 88: pivot_table with no index gives one row, its columns the sorted
\* years. Every year occurs once in either frame, so the mean is the value itself.
forecasted_df_wide(rows) ==
    LET ys == SortedSeq(YearsOf(rows))
    IN  [columns |-> ys, row |-> [i \in 1..Len(ys) |-> CountCell(rows, ys[i])]]
curr_year_demand_wide(cyd) ==
    LET ys == SortedSeq(YearsOf(cyd))
    IN  [columns |-> ys, row |-> [i \in 1..Len(ys) |-> UnitsCell(cyd, ys[i])]]

PosOf(cols, y) == CHOOSE i \in 1..Len(cols) : cols[i] = y
CellAt(wide, y) ==
    IF y \in Range(wide.columns) THEN wide.row[PosOf(wide.columns, y)] ELSE NaN

\* line 89
common_years(left, right) == SortedSeq(Range(left.columns) \cap Range(right.columns))

LexLess(a, b) ==
    \E i \in 1..Len(a) : a[i] < b[i] /\ \A j \in 1..(i - 1) : a[j] = b[j]

\* line 90: pd.merge(left, right, on=common, how='outer') of two one-row frames.
\* The join keys are the VALUES of the common-year columns. Equal keys join the
\* two rows into one; different keys give two rows, sorted by key; no key at all
\* raises. The columns are the left frame's, then the right frame's other ones.
MergeColumns(left, right) ==
    left.columns \o SelectSeq(right.columns, LAMBDA y : y \notin Range(left.columns))

MergeOuter(left, right) ==
    LET on       == common_years(left, right)
        cols     == MergeColumns(left, right)
        lkey     == [i \in 1..Len(on) |-> CellAt(left, on[i])[1]]
        rkey     == [i \in 1..Len(on) |-> CellAt(right, on[i])[1]]
        leftRow  == [i \in 1..Len(cols) |-> CellAt(left, cols[i])]
        rightRow == [i \in 1..Len(cols) |-> CellAt(right, cols[i])]
        joined   == [i \in 1..Len(cols) |->
                        IF cols[i] \in Range(left.columns) THEN CellAt(left, cols[i])
                        ELSE CellAt(right, cols[i])]
    IN  IF Len(on) = 0 THEN [raised |-> TRUE, columns |-> cols, rows |-> <<>>]
        ELSE IF lkey = rkey THEN [raised |-> FALSE, columns |-> cols, rows |-> <<joined>>]
        ELSE IF LexLess(lkey, rkey)
             THEN [raised |-> FALSE, columns |-> cols, rows |-> <<leftRow, rightRow>>]
             ELSE [raised |-> FALSE, columns |-> cols, rows |-> <<rightRow, leftRow>>]

\* line 104, for the 1-based position idx of a table of n columns.
NextFourYears(idx, n) == IF idx + WindowSpan <= n THEN idx..(idx + WindowSpan - 1) ELSE idx..n
NextFiveYears(idx, n) == IF idx + WindowSpan <= n THEN idx..(idx + WindowSpan) ELSE idx..n

\* lines 110-111: int() of a NaN cell raises.
AddToWindow(list, window, med) ==
    IF \E i \in window : IsNaN(list[i])
    THEN [raised |-> TRUE, list |-> list]
    ELSE [raised |-> FALSE,
          list |-> [i \in 1..Len(list) |-> IF i \in window THEN <<list[i][1] + med>> ELSE list[i]]]

\* lines 93-111: the loop over the merged table's columns, from position idx on.
RECURSIVE Redistribute(_, _, _, _)
Redistribute(cols, row0, total, idx) ==
    IF idx > Len(cols) \/ total.raised THEN total
    ELSE LET two_years_before == cols[idx] - LookBack
             two_years_before_demand ==
                 IF two_years_before \in Range(cols)
                 THEN row0[PosOf(cols, two_years_before)]
                 ELSE NaN
             next == IF IsNaN(two_years_before_demand) THEN total
                     ELSE AddToWindow(total.list, NextFiveYears(idx, Len(cols)),
                                      TruncDiv(two_years_before_demand[1]))
         IN  Redistribute(cols, row0, next, idx + 1)

\* lines 116-119: the labels are attached by row position, then reindex([1, 0, 2]).
first_column == <<"Upcoming Demand", "Current Demand", "Total Demand">>
ReindexIdentity(rows) == rows
Reindex(rows) == <<rows[2], rows[1], rows[3]>>

NoOverview ==
    [outcome |-> "none", columns |-> <<>>, table |-> <<>>, merged |-> <<>>,
     wide |-> [columns |-> <<>>, row |-> <<>>], total |-> <<>>]

\* lines 123-128
EmptySupplyOverview(wide) ==
    [outcome |-> "ok", columns |-> wide.columns,
     table |-> << [label |-> "Current Demand", cells |-> wide.row] >>,
     merged |-> <<>>, wide |-> wide, total |-> <<>>]

\* lines 87-121
SupplyOverview(wide, cyd) ==
    LET m     == MergeOuter(wide, curr_year_demand_wide(cyd))
        base  == [NoOverview EXCEPT !.columns = m.columns, !.merged = m.rows, !.wide = wide]
    IN  IF m.raised THEN [base EXCEPT !.outcome = "raise_90"]
        ELSE IF Len(m.rows) < 2 THEN [base EXCEPT !.outcome = "raise_92"]
        ELSE LET t == Redistribute(m.columns, m.rows[1],
                                   [raised |-> FALSE, list |-> m.rows[2]], 1)
             IN  IF t.raised THEN [base EXCEPT !.outcome = "raise_111"]
                 ELSE IF \E i \in 1..Len(t.list) : IsNaN(t.list[i])
                      THEN [base EXCEPT !.outcome = "raise_113"]
                      ELSE LET overview_df == m.rows \o <<t.list>>
                           IN  [base EXCEPT
                                  !.outcome = "ok",
                                  !.total = t.list,
                                  !.table = Reindex([i \in 1..3 |->
                                               [label |-> first_column[i],
                                                cells |-> overview_df[i]]])]

IsEmptyFrame(cyd) == Len(cyd) = 0

get_overview(rows, cyd, preds, fyears) ==
    LET wide == forecasted_df_wide(forecasted_df(rows, preds, fyears))
    IN  IF IsEmptyFrame(cyd) THEN EmptySupplyOverview(wide) ELSE SupplyOverview(wide, cyd)

(***************************************************************************)
(* The inputs the model draws from                                         *)
(***************************************************************************)
MaxProjects == 2

SelectedSubzone == "SEL"

\* A series of consecutive years first..last, one year (gap) left out.
SeriesYears(c) == SortedSeq((c.first .. c.last) \ {c.gap})

\* HistoricalSeries: the years of columns_to_sum (forecast_model.py line 38,
\* range(2000, 2021)), which app.py lines 67-69 melt into one row per year.
columns_to_sum == SortedSeq(2000 .. (2021 - 1))
CountBases == {495, 800}
HistRows(base) ==
    [i \in 1..Len(columns_to_sum) |->
        [Year |-> columns_to_sum[i], Count |-> base + (columns_to_sum[i] - 2000)]]

\* FertilityRateSeries: through 2023 as years_forecast assumes, ending a year
\* earlier, with a year missing after or inside the history's years, and three
\* that share no year with the history.
FertChoices ==
    { [first |-> 1998, last |-> 2023, gap |-> 0],
      [first |-> 1998, last |-> 2022, gap |-> 0],
      [first |-> 1998, last |-> 2024, gap |-> 2022],
      [first |-> 1998, last |-> 2024, gap |-> 2010],
      [first |-> 2024, last |-> 2027, gap |-> 0],
      [first |-> 2024, last |-> 2025, gap |-> 0],
      [first |-> 2024, last |-> 2047, gap |-> 0] }
FertRows(c) ==
    LET ys == SeriesYears(c)
    IN  [i \in 1..Len(ys) |-> [Year |-> ys[i], Rate |-> 1800 - 7 * (ys[i] - 1990)]]

\* Housing projects: completion years inside the history, inside the forecast
\* horizon and beyond it; one project of another subzone.
ProjectOptions ==
    << [Subzone |-> SelectedSubzone, Year |-> 2005, Units |-> 3],
       [Subzone |-> SelectedSubzone, Year |-> 2005, Units |-> 500],
       [Subzone |-> SelectedSubzone, Year |-> 2005, Units |-> 1200],
       [Subzone |-> SelectedSubzone, Year |-> 2007, Units |-> 500],
       [Subzone |-> SelectedSubzone, Year |-> 2025, Units |-> 500],
       [Subzone |-> SelectedSubzone, Year |-> 2025, Units |-> 1200],
       [Subzone |-> SelectedSubzone, Year |-> 2035, Units |-> 500],
       [Subzone |-> "OTHER", Year |-> 2025, Units |-> 500] >>
NumProjectOptions == Len(ProjectOptions)
ProjectOption(o) == ProjectOptions[o]
BtoOfLength(n) ==
    { [i \in 1..n |-> ProjectOption(f[i])] :
        f \in { g \in [1..n -> 1..NumProjectOptions] :
                  \A i \in 1..n, j \in 1..n : i < j => g[i] <= g[j] } }
BtoChoices == UNION { BtoOfLength(n) : n \in 0..MaxProjects }

\* What the ARIMA forecast may return, in tenths: <<base, step>> stands for the
\* 9 values base, base + step, ...
ForecastChoices == { <<-15, 13>>, <<5005, 0>>, <<8009, 13>> }
ForecastValues(c) == [k \in 1..forecast_periods |-> c[1] + c[2] * (k - 1)]

(***************************************************************************)
(* The forecast tab of app.py, lines 67-100                                *)
(***************************************************************************)
Init ==
    /\ pc = "get_forecast_demand"
    /\ \E c \in FertChoices : annual_birth_and_fertility_rates = FertRows(c)
    /\ bto_mapping \in BtoChoices
    /\ \E base \in CountBases :
          /\ subzone_long = [columns |-> <<"Subzone", "Year", "Count">>, rows |-> HistRows(base)]
          /\ caller_frame = subzone_long
    /\ data_long_with_rates = <<>>
    /\ exog_future_extended = <<>>
    /\ fd_outcome = "none"
    /\ future_predictions = <<>>
    /\ future_years = <<>>
    /\ total_units_by_year = <<>>
    /\ overview = NoOverview

\* line 149: data_long['Year'] = data_long['Year'].astype(int) assigns the column
\* of the caller's frame; app.py line 69 made the years integers already.
CastYearColumn(frame) ==
    [frame EXCEPT !.rows = [i \in 1..Len(frame.rows) |->
                               [frame.rows[i] EXCEPT !.Year = frame.rows[i].Year]]]

\* line 209: data_long['Type'] = 'Actual' adds a column to the caller's frame.
AddTypeColumn(frame) ==
    IF "Type" \in Range(frame.columns) THEN frame
    ELSE [frame EXCEPT !.columns = Append(frame.columns, "Type")]

\* app.py line 77, get_forecast_demand returning.
GetForecastDemand ==
    /\ pc = "get_forecast_demand"
    /\ LET frame == ExogenousFrame(subzone_long.rows, annual_birth_and_fertility_rates)
       IN  /\ ForecastOutcome(frame) = "ok"
           /\ data_long_with_rates' = frame
           /\ exog_future_extended' = RegressorRows(frame)
           /\ fd_outcome' = "ok"
    /\ \E c \in ForecastChoices : future_predictions' = ForecastValues(c)
    /\ future_years' = FutureYears(subzone_long.rows)
    /\ subzone_long' = CastYearColumn(subzone_long)
    /\ pc' = "button"
    /\ UNCHANGED <<annual_birth_and_fertility_rates, bto_mapping, caller_frame,
                   total_units_by_year, overview>>

\* app.py line 77, get_forecast_demand raising: the script run ends.
GetForecastDemandRaises ==
    /\ pc = "get_forecast_demand"
    /\ LET frame == ExogenousFrame(subzone_long.rows, annual_birth_and_fertility_rates)
       IN  /\ ForecastOutcome(frame) # "ok"
           /\ data_long_with_rates' = frame
           /\ exog_future_extended' =
                 IF ForecastOutcome(frame) = "raise_188" THEN RegressorRows(frame) ELSE <<>>
           /\ fd_outcome' = ForecastOutcome(frame)
    /\ subzone_long' = CastYearColumn(subzone_long)
    /\ pc' = "raised"
    /\ UNCHANGED <<annual_birth_and_fertility_rates, bto_mapping, caller_frame,
                   future_predictions, future_years, total_units_by_year, overview>>

\* app.py lines 78-79: the button was pressed, get_forecast_plot runs.
ShowForecast ==
    /\ pc = "button"
    /\ subzone_long' = AddTypeColumn(subzone_long)
    /\ pc' = "get_curr_year_demand"
    /\ UNCHANGED <<annual_birth_and_fertility_rates, bto_mapping, caller_frame,
                   data_long_with_rates, exog_future_extended, fd_outcome,
                   future_predictions, future_years, total_units_by_year, overview>>

\* app.py line 78: the button was not pressed.
SkipForecast ==
    /\ pc = "button"
    /\ pc' = "get_curr_year_demand"
    /\ UNCHANGED <<annual_birth_and_fertility_rates, bto_mapping, subzone_long, caller_frame,
                   data_long_with_rates, exog_future_extended, fd_outcome,
                   future_predictions, future_years, total_units_by_year, overview>>

\* app.py line 86
GetCurrYearDemand ==
    /\ pc = "get_curr_year_demand"
    /\ total_units_by_year' = get_curr_year_demand(bto_mapping, SelectedSubzone)
    /\ pc' = "get_overview"
    /\ UNCHANGED <<annual_birth_and_fertility_rates, bto_mapping, subzone_long, caller_frame,
                   data_long_with_rates, exog_future_extended, fd_outcome,
                   future_predictions, future_years, overview>>

\* app.py line 100
GetOverview ==
    /\ pc = "get_overview"
    /\ overview' = get_overview(subzone_long.rows, total_units_by_year,
                                future_predictions, future_years)
    /\ pc' = IF overview'.outcome = "ok" THEN "done" ELSE "raised"
    /\ UNCHANGED <<annual_birth_and_fertility_rates, bto_mapping, subzone_long, caller_frame,
                   data_long_with_rates, exog_future_extended, fd_outcome,
                   future_predictions, future_years, total_units_by_year>>

Next ==
    \/ GetForecastDemand
    \/ GetForecastDemandRaises
    \/ ShowForecast
    \/ SkipForecast
    \/ GetCurrYearDemand
    \/ GetOverview

Spec == Init /\ [][Next]_vars

(***************************************************************************)
(* What the properties below read                                          *)
(***************************************************************************)
OverviewRan == overview.outcome # "none"
SupplyYears == YearsOf(total_units_by_year)
UnitsOf(c) == (CHOOSE r \in Range(total_units_by_year) : r.Year = c).Units
HistYears == YearsOf(caller_frame.rows)
LastHistYear == SetMax(HistYears)

\* Truncation toward zero, of tenths and of a fifth.
TruncTenths(t) == IF t >= 0 THEN t \div 10 ELSE -((-t) \div 10)
TruncFifth(u) == IF u >= 0 THEN u \div 5 ELSE -((-u) \div 5)

\* The Observed+Forecast series: the history's counts, then the forecast as integers.
ObservedForecastYears == HistYears \cup Range(future_years)
ObservedForecast(T) ==
    IF T \in HistYears
    THEN (CHOOSE r \in Range(caller_frame.rows) : r.Year = T).Count
    ELSE TruncTenths(future_predictions[PosOf(future_years, T)])

\* The cells of the returned table's row with this label, and one of them.
LabelledRow(label) == (CHOOSE r \in Range(overview.table) : r.label = label).cells
LabelledCell(label, T) == LabelledRow(label)[PosOf(overview.columns, T)]
Labels == [i \in 1..Len(overview.table) |-> overview.table[i].label]

\* What Total Demand holds above the Observed+Forecast value, at year T.
Increment(T) == LabelledCell("Total Demand", T)[1] - ObservedForecast(T)

RECURSIVE CohortShare(_, _)
CohortShare(T, cohorts) ==
    IF cohorts = {} THEN 0
    ELSE LET c == CHOOSE x \in cohorts : TRUE
         IN  (IF c + 2 \in Range(overview.columns) /\ c + 2 <= T /\ T <= c + 7
              THEN TruncFifth(UnitsOf(c)) ELSE 0)
             + CohortShare(T, cohorts \ {c})

RECURSIVE SumIncrements(_)
SumIncrements(years) ==
    IF years = {} THEN 0
    ELSE LET y == CHOOSE x \in years : TRUE
         IN  Increment(y) + SumIncrements(years \ {y})

\* The rows the merged table is meant to hold, over its columns.
CountsRow == [i \in 1..Len(overview.columns) |->
                 IF overview.columns[i] \in ObservedForecastYears
                 THEN <<ObservedForecast(overview.columns[i])>> ELSE NaN]
UnitsRow == [i \in 1..Len(overview.columns) |->
                 IF overview.columns[i] \in SupplyYears
                 THEN <<UnitsOf(overview.columns[i])>> ELSE NaN]
MergeRan == OverviewRan /\ SupplyYears # {} /\ overview.outcome # "raise_90"

\* A single cohort whose years Y+2..Y+7 are all columns of the returned table.
SingleCohort ==
    /\ pc = "done"
    /\ Cardinality(SupplyYears) = 1
    /\ \A y \in SupplyYears : \A d \in 2..7 : y + d \in Range(overview.columns)
CohortYear == CHOOSE y \in SupplyYears : TRUE
CohortWindow == (CohortYear + 2)..(CohortYear + 7)

\* The forecast of line 188 was called: the training window has its 19 rows.
ForecastCalled == fd_outcome \in {"ok", "raise_188"} /\ Len(data_long_with_rates) >= 19
LastTrainingYear == data_long_with_rates[19].Year
RegressorYears == [i \in 1..Len(exog_future_extended) |-> exog_future_extended[i].Year]

\* The call went past line 164: LinearRegression was fitted on the frame's rows.
RegressionFitted == fd_outcome \in {"raise_170", "raise_188", "ok"}

\* The fertility series (years >= 2000) and the history share no year.
NoOverlap ==
    HistYears \cap {y \in YearsOf(annual_birth_and_fertility_rates) : y >= 2000} = {}

(***************************************************************************)
(* C1: with a non-empty supply, get_overview gives a Total Demand row that *)
(* holds, at every year T of the Observed+Forecast series,                 *)
(* ObservedForecast(T) plus, for every supply year C with C+2 a column and *)
(* C+2 <= T <= C+7, trunc(Units(C)/5): a window of calendar years,         *)
(* accumulated over the cohorts. Stated for the supplies whose completion  *)
(* years are all years of the Observed+Forecast series.                    *)
(***************************************************************************)
C1_RedistributionByCalendarYear ==
    (OverviewRan /\ SupplyYears # {} /\ SupplyYears \subseteq ObservedForecastYears) =>
        /\ pc = "done"
        /\ \A T \in ObservedForecastYears :
              LabelledCell("Total Demand", T) = <<ObservedForecast(T) + CohortShare(T, SupplyYears)>>

(***************************************************************************)
(* C2: with a non-empty supply, row 1 of the merged table is the           *)
(* Observed+Forecast row and row 0 the housing-supply row, whatever the    *)
(* counts and units; the labels Current Demand / Upcoming Demand go to the *)
(* counts row / units row.                                                 *)
(***************************************************************************)
C2_RowOneIsObservedForecast ==
    MergeRan =>
        /\ Len(overview.merged) = 2
        /\ overview.merged[2] = CountsRow
        /\ overview.merged[1] = UnitsRow
        /\ overview.outcome = "ok" =>
              /\ LabelledRow("Current Demand") = CountsRow
              /\ LabelledRow("Upcoming Demand") = UnitsRow

(***************************************************************************)
(* C3: with a non-empty supply, the returned table has exactly three       *)
(* labelled rows. As claimed: in the order Upcoming, Current, Total.       *)
(* As amended: in the order Current Demand, Upcoming Demand, Total Demand. *)
(***************************************************************************)
C3_RowOrderUpcomingFirst ==
    (pc = "done" /\ SupplyYears # {}) =>
        Labels = <<"Upcoming Demand", "Current Demand", "Total Demand">>

\* C3 (amended): three rows, top to bottom Current Demand, Upcoming Demand, Total Demand.
C3_RowOrderCurrentFirst ==
    (pc = "done" /\ SupplyYears # {}) =>
        Labels = <<"Current Demand", "Upcoming Demand", "Total Demand">>

C3_Witness == pc = "done" /\ SupplyYears # {} /\ Len(overview.table) = 3

(***************************************************************************)
(* C4: a single cohort of U units completing in year Y, all of Y+2..Y+7 in *)
(* the table. As claimed: the increments over [Y+2, Y+7] sum to            *)
(* 5 * floor(U/5). As amended: to 6 * floor(U/5), floor(U/5) in each year. *)
(***************************************************************************)
C4_ConservesFiveShares ==
    SingleCohort => SumIncrements(CohortWindow) = 5 * (UnitsOf(CohortYear) \div 5)

\* C4 (amended): the six years Y+2..Y+7 each receive floor(U/5), 6 * floor(U/5) in all.
C4_SixShares ==
    SingleCohort =>
        /\ SumIncrements(CohortWindow) = 6 * (UnitsOf(CohortYear) \div 5)
        /\ \A T \in CohortWindow : Increment(T) = UnitsOf(CohortYear) \div 5

C4_Witness == SingleCohort /\ UnitsOf(CohortYear) = 500 /\ SumIncrements(CohortWindow) = 600

(***************************************************************************)
(* C5: with an empty supply, get_overview returns one row, labelled        *)
(* Current Demand, holding at every year the historical count or the       *)
(* forecast cast to an integer; no other row, no increment.                *)
(***************************************************************************)
C5_EmptySupplyOneRow ==
    (OverviewRan /\ SupplyYears = {}) =>
        /\ overview.outcome = "ok"
        /\ Labels = <<"Current Demand">>
        /\ overview.columns = SortedSeq(ObservedForecastYears)
        /\ \A T \in ObservedForecastYears :
              LabelledCell("Current Demand", T) = <<ObservedForecast(T)>>

C5_Witness ==
    /\ pc = "done" /\ SupplyYears = {}
    /\ Len(bto_mapping) > 0
    /\ Len(overview.table) = 1
    /\ \E T \in Range(future_years) : LabelledCell("Current Demand", T) = <<-1>>

(***************************************************************************)
(* C6: for a history of at least 21 years, get_forecast_demand returns     *)
(* exactly 9 forecast values and exactly 9 years, the years consecutive    *)
(* and starting at the last historical year + 1. Stated for the fertility  *)
(* series that share a year with the history.                              *)
(***************************************************************************)
C6_NineYearsAfterHistory ==
    (fd_outcome # "none" /\ Cardinality(HistYears) >= 21 /\ ~NoOverlap) =>
        /\ fd_outcome = "ok"
        /\ Len(future_predictions) = 9
        /\ Len(future_years) = 9
        /\ \A k \in 1..9 : future_years[k] = LastHistYear + k

(***************************************************************************)
(* C7: the regressors handed to the 9-step forecast are indexed by exactly *)
(* the 9 consecutive years after the last training year (the year of the   *)
(* 19th row of the frame), whatever the last year of either series, so the *)
(* k-th forecast value belongs to the k-th returned year.                  *)
(***************************************************************************)
C7_RegressorsFollowTraining ==
    ForecastCalled =>
        /\ RegressorYears = [k \in 1..9 |-> LastTrainingYear + k]
        /\ fd_outcome = "ok" => future_years = RegressorYears

(***************************************************************************)
(* C8: every row (year y) of the frame get_forecast_demand builds has      *)
(* Rate_lagged(y) = Rate(y - 2) of the fertility series, a lag of calendar *)
(* years, also where the joined years have gaps.                           *)
(***************************************************************************)
C8_LagIsByCalendarYear ==
    fd_outcome # "none" =>
        \A i \in 1..Len(data_long_with_rates) :
            LET r == data_long_with_rates[i]
            IN  /\ ~IsNaN(r.Rate)
                /\ r.Rate_lagged = RateCell(annual_birth_and_fertility_rates, r.Year - 2)

(***************************************************************************)
(* C9: when the fertility series (years >= 2000) shares no year with the   *)
(* history, the frame is empty and the call ends in an error; no model is  *)
(* fitted on rows that have no historical Count, nothing is returned.      *)
(***************************************************************************)
C9_EmptyFrameAndError ==
    (fd_outcome # "none" /\ NoOverlap) =>
        /\ data_long_with_rates = <<>>
        /\ fd_outcome # "ok"
        /\ ~(RegressionFitted /\ \E i \in 1..Len(data_long_with_rates) :
                                    IsNaN(data_long_with_rates[i].Count))

(***************************************************************************)
(* C10: the core functions leave their inputs alone: after any sequence of *)
(* calls the caller's per-subzone frame (columns and values) and the       *)
(* supply frame are as they were before the first call.                    *)
(***************************************************************************)
C10_InputsUnchanged == subzone_long = caller_frame

(***************************************************************************)
(* C11: for a non-empty supply, also one with a completion year that is no *)
(* year of the Observed+Forecast series, get_overview terminates normally  *)
(* and returns the three-row table with one column per year of the union   *)
(* of both series; it never ends in an error because a Total Demand or     *)
(* base cell is undefined.  Stated on the case the claim names: a supply   *)
(* with a completion year outside the Observed+Forecast years.             *)
(***************************************************************************)
C11_OutsideYearReturnsTable ==
    (OverviewRan /\ SupplyYears \ ObservedForecastYears # {}) =>
        /\ overview.outcome = "ok"
        /\ pc = "done"
        /\ Len(overview.table) = Len(first_column)
        /\ Range(overview.columns) = ObservedForecastYears \cup SupplyYears

====
